---- MODULE Spec2Model ----
(***************************************************************************)
(* TSID (Time-Sorted Unique Identifier): the identifier value and its      *)
(* canonical string codec (class TSID) and the generator (class            *)
(* TSIDGenerator) of src/src/tsidpy/tsid.py.                               *)
(*                                                                         *)
(* Bit widths are scaled down so that the state space is finite and the    *)
(* numbers fit TLC's integers; the layout is kept:                         *)
(*   source  64 = 5 * 13 - 1 bits, 13 symbols, 22 random bits, node bits   *)
(*           0..20 (= 22 - 2);                                             *)
(*   model   TSID_BITS = 5 * TSID_CHARS - 1 bits, TSID_CHARS symbols,      *)
(*           RANDOM_BITS random bits, node bits 0..RANDOM_BITS - 2.        *)
(* Wall-clock time (a float number of milliseconds) is a whole number of   *)
(* ticks, TicksPerMs ticks to the millisecond, so that fractional          *)
(* milliseconds exist.                                                     *)
(***************************************************************************)
EXTENDS Integers, Sequences, FiniteSets, TLC

\* ------------------------------------------------------------- bounds
TSID_CHARS   == 2   \* symbols of the canonical string (13 in the source)
RANDOM_BITS  == 3   \* width of the random component (22 in the source)
TicksPerMs   == 2   \* resolution of the clock: ticks per millisecond
MaxClock     == 4   \* largest wall-clock reading, in ticks

\* ------------------------------------------------------------- constants
SYM_BITS == 5       \* bits per canonical symbol: range(60, -5, -5), & 0x1f

TSID_BITS     == SYM_BITS * TSID_CHARS - 1
TSID_MASK     == 2^TSID_BITS - 1
RANDOM_MASK   == 2^RANDOM_BITS - 1
MAX_NODE_BITS == RANDOM_BITS - 2
SYM_MASK      == 2^SYM_BITS - 1
Horizon       == MaxClock + TicksPerMs   \* no call starts once last_millis is here

Threads == {"t1", "t2"}
None    == "None"
NoTSID  == 0 - 1
NoRun   == 0 - 1
NoText  == <<0 - 1>>

\* ------------------------------------------------------------- integer operations
\* Python's x >> n on unbounded integers: floor division by 2^n.
Shr(x, n) == x \div (2^n)

\* Python's x << n.
Shl(x, n) == x * (2^n)

\* Python's x & mask for a mask of the form 2^k - 1 (every mask of the source is).
And(x, mask) == x % (mask + 1)

\* Python's int(x) on a float: truncation toward zero; x is in ticks, the result in ms.
IntMs(x) == IF x >= 0 THEN x \div TicksPerMs ELSE -((-x) \div TicksPerMs)

\* TSID.__init__: the number is truncated to the identifier's width.
TSID(number) == And(number, TSID_MASK)

\* TSID.timestamp, in ticks: epoch + (number >> RANDOM_BITS) milliseconds.
Timestamp(number, ep) == ep + Shr(number, RANDOM_BITS) * TicksPerMs

\* TSID.random
Random(number) == And(number, RANDOM_MASK)

VARIABLES
    clock,          \* time.time() * 1000, in ticks
    phase,          \* "new" (no constructor call yet), "ready", "failed"
    err,            \* the error the constructor raised, "none" if it raised none
    args,           \* the node and node_bits arguments of a rejected constructor call
    node, node_bits, epoch, counter, millis,   \* TSIDGenerator fields
    lock,           \* self._lock: None, or the thread holding it
    pc,             \* each thread's position in create()
    current_millis, \* each thread's local current_millis
    last,           \* the number of the TSID returned last, NoTSID before the first
    lastBranch,     \* history: the branch the latest call took: "same" (increment),
                    \* "roll" (increment and rollover), "new" (new millisecond)
    lastBehind,     \* history: the latest call read a clock earlier than last_millis
    rollovers,      \* history: number of counter rollovers so far
    zeroRun,        \* history: number of calls so far, while random_fn seeded the
                    \* counter with 0 and every call took the increment branch;
                    \* NoRun otherwise
    value, text, parsed   \* codec: a TSID number, a string, from_string's result

genvars   == <<phase, err, args, node, node_bits, epoch, counter, millis, lock, pc,
               current_millis, last, lastBranch, lastBehind, rollovers, zeroRun>>
codecvars == <<value, text, parsed>>
vars      == <<clock, genvars, codecvars>>

counter_bits == RANDOM_BITS - node_bits
counter_mask == Shr(RANDOM_MASK, node_bits)
node_mask    == Shr(RANDOM_MASK, counter_bits)

\* The integers a pluggable random_fn(n) may return: the n-bit integers, two
\* values below them and one above.
RandomFn(n) == -2 .. 2^n

\* random.getrandbits(n)
GetRandBits(n) == 0 .. 2^n - 1

\* Epochs a caller passes: a whole and a fractional number of milliseconds.
Epochs == 0 .. 1

\* ------------------------------------------------------------- TSIDGenerator.__init__
\* node when the caller gives none: random.getrandbits(20) >> (20 - node_bits)
ResolveNode(given, n, nb, r) == IF given THEN n ELSE Shr(r, MAX_NODE_BITS - nb)

\* if self.node >> node_bits > 0: raise ValueError('Node ... too large ...')
NodeTooLargeOffByOne(nd, nb) == Shr(nd, nb) > 1
NodeTooLarge(nd, nb) == Shr(nd, nb) > 0

\* The checks of the constructor, in the order the constructor makes them.
ConstructorError(given, n, nb, r) ==
    IF given /\ n < 0 THEN "InvalidNode"
    ELSE IF nb < 0 \/ nb > MAX_NODE_BITS THEN "InvalidNodeBits"
    ELSE IF NodeTooLarge(ResolveNode(given, n, nb, r), nb) THEN "NodeTooLarge"
    ELSE "none"

NoArgs == [given |-> FALSE, node |-> 0, node_bits |-> 0]

Construct(given, n, nb, e, r, seed) ==
    /\ phase = "new"
    /\ e <= clock
    /\ err' = ConstructorError(given, n, nb, r)
    /\ args' = IF err' = "none" THEN NoArgs
               ELSE [given |-> given, node |-> n, node_bits |-> nb]
    /\ IF err' = "none"
       THEN /\ phase' = "ready"
            /\ node' = ResolveNode(given, n, nb, r)
            /\ node_bits' = nb
            /\ epoch' = e
            /\ counter' = seed
            /\ millis' = clock
            /\ zeroRun' = IF seed = 0 THEN 0 ELSE NoRun
       ELSE /\ phase' = "failed"
            /\ UNCHANGED <<node, node_bits, epoch, counter, millis, zeroRun>>
    /\ UNCHANGED <<clock, lock, pc, current_millis, last, lastBranch, lastBehind,
                   rollovers, codecvars>>

\* ------------------------------------------------------------- TSIDGenerator.create
\* with self._lock: the lock is free
CanAcquireUnlocked(t) == TRUE
CanAcquire(t) == lock = None

\* if current_millis - self._millis < 1
SameMillisecondForwardOnly(current, lastms) ==
    current - lastms < TicksPerMs /\ current >= lastms
SameMillisecond(current, lastms) == current - lastms < TicksPerMs

\* if self.counter >> self._counter_bits != 0
Overflows(c, cb) == Shr(c, cb) # 0

\* The same-millisecond branch: counter += 1, and on overflow the next
\* millisecond with counter 0.
IncrementKeepMillis(lastms, c, cb) ==
    IF Overflows(c + 1, cb)
    THEN [millis |-> lastms, counter |-> 0, branch |-> "roll"]
    ELSE [millis |-> lastms, counter |-> c + 1, branch |-> "same"]
IncrementTwoMillis(lastms, c, cb) ==
    IF Overflows(c + 1, cb)
    THEN [millis |-> lastms + 2 * TicksPerMs, counter |-> 0, branch |-> "roll"]
    ELSE [millis |-> lastms, counter |-> c + 1, branch |-> "same"]
Increment(lastms, c, cb) ==
    IF Overflows(c + 1, cb)
    THEN [millis |-> lastms + TicksPerMs, counter |-> 0, branch |-> "roll"]
    ELSE [millis |-> lastms, counter |-> c + 1, branch |-> "same"]

\* The new-millisecond branch: the clock reading and a redrawn, masked counter.
NewMillisecondAhead(current, rnd, cmask) ==
    [millis |-> current + TicksPerMs, counter |-> And(rnd, cmask), branch |-> "new"]
NewMillisecond(current, rnd, cmask) ==
    [millis |-> current, counter |-> And(rnd, cmask), branch |-> "new"]

\* millis + node + counter of the packing, before TSID() truncates it
PackNodeUnshifted(ms, ep, nd, nmask, cb, c, cmask) ==
    Shl(IntMs(ms - ep), RANDOM_BITS) + And(nd, nmask) + And(c, cmask)
Pack(ms, ep, nd, nmask, cb, c, cmask) ==
    Shl(IntMs(ms - ep), RANDOM_BITS) + Shl(And(nd, nmask), cb) + And(c, cmask)

\* The TSID the generator's present fields pack to.
Packed == TSID(Pack(millis, epoch, node, node_mask, counter_bits, counter, counter_mask))

\* create() run by one caller at a time: the lock is free when it is called, and
\* the locked region runs from the clock reading to the return.
Create(rnd) ==
    /\ phase = "ready"
    /\ millis < Horizon
    /\ \A t \in Threads : pc[t] = "idle"
    /\ LET nxt == IF SameMillisecond(clock, millis)
                  THEN Increment(millis, counter, counter_bits)
                  ELSE NewMillisecond(clock, rnd, counter_mask)
       IN  /\ millis' = nxt.millis
           /\ counter' = nxt.counter
           /\ rollovers' = IF nxt.branch = "roll" THEN rollovers + 1 ELSE rollovers
           /\ zeroRun' = IF zeroRun # NoRun /\ nxt.branch # "new"
                         THEN zeroRun + 1 ELSE NoRun
           /\ lastBranch' = nxt.branch
           /\ lastBehind' = (clock < millis)
           /\ last' = TSID(Pack(nxt.millis, epoch, node, node_mask, counter_bits,
                                nxt.counter, counter_mask))
    /\ UNCHANGED <<clock, phase, err, args, node, node_bits, epoch, lock, pc,
                   current_millis, codecvars>>

\* create() step by step, for callers on several threads. The history variables
\* of the calls (lastBranch, lastBehind, rollovers, zeroRun) are kept by Create
\* only.
Call(t) ==
    /\ phase = "ready"
    /\ pc[t] = "idle"
    /\ millis < Horizon
    /\ pc' = [pc EXCEPT ![t] = "waiting"]
    /\ UNCHANGED <<clock, phase, err, args, node, node_bits, epoch, counter, millis,
                   lock, current_millis, last, lastBranch, lastBehind, rollovers,
                   zeroRun, codecvars>>

Acquire(t) ==
    /\ pc[t] = "waiting"
    /\ CanAcquire(t)
    /\ lock' = t
    /\ pc' = [pc EXCEPT ![t] = "locked"]
    /\ UNCHANGED <<clock, phase, err, args, node, node_bits, epoch, counter, millis,
                   current_millis, last, lastBranch, lastBehind, rollovers, zeroRun,
                   codecvars>>

ReadClock(t) ==
    /\ pc[t] = "locked"
    /\ current_millis' = [current_millis EXCEPT ![t] = clock]
    /\ pc' = [pc EXCEPT ![t] = "read"]
    /\ UNCHANGED <<clock, phase, err, args, node, node_bits, epoch, counter, millis,
                   lock, last, lastBranch, lastBehind, rollovers, zeroRun, codecvars>>

Update(t, rnd) ==
    /\ pc[t] = "read"
    /\ LET nxt == IF SameMillisecond(current_millis[t], millis)
                  THEN Increment(millis, counter, counter_bits)
                  ELSE NewMillisecond(current_millis[t], rnd, counter_mask)
       IN  /\ millis' = nxt.millis
           /\ counter' = nxt.counter
    /\ pc' = [pc EXCEPT ![t] = "updated"]
    /\ current_millis' = [current_millis EXCEPT ![t] = 0]   \* not read again
    /\ UNCHANGED <<clock, phase, err, args, node, node_bits, epoch, lock, last,
                   lastBranch, lastBehind, rollovers, zeroRun, codecvars>>

\* The packing and the return, which releases the lock.
Return(t) ==
    /\ pc[t] = "updated"
    /\ last' = Packed
    /\ lock' = None
    /\ pc' = [pc EXCEPT ![t] = "idle"]
    /\ UNCHANGED <<clock, phase, err, args, node, node_bits, epoch, counter, millis,
                   current_millis, lastBranch, lastBehind, rollovers, zeroRun,
                   codecvars>>

\* ------------------------------------------------------------- the wall clock
ClockForward(c) ==
    /\ c > clock
    /\ clock' = c
    /\ UNCHANGED <<genvars, codecvars>>

ClockBackward(c) ==
    /\ c < clock
    /\ clock' = c
    /\ UNCHANGED <<genvars, codecvars>>

\* ------------------------------------------------------------- specification
NoCodec == value = NoTSID /\ text = NoText /\ parsed = [kind |-> "none", number |-> NoTSID]

NoGenerator ==
    /\ clock = 0
    /\ phase = "new"
    /\ err = "none"
    /\ args = NoArgs
    /\ node = 0 /\ node_bits = 0 /\ epoch = 0 /\ counter = 0 /\ millis = 0
    /\ lock = None
    /\ pc = [t \in Threads |-> "idle"]
    /\ current_millis = [t \in Threads |-> 0]
    /\ last = NoTSID
    /\ lastBranch = "none"
    /\ lastBehind = FALSE
    /\ rollovers = 0
    /\ zeroRun = NoRun

Init == NoGenerator /\ NoCodec

NodeBitsArgs == -1 .. MAX_NODE_BITS + 1
NodeArgs     == -1 .. 2^MAX_NODE_BITS

\* A constructor call with any arguments; rand[n] is what random_fn(n) may return.
ConstructAny(rand) ==
    \E given \in BOOLEAN, nb \in NodeBitsArgs, e \in Epochs :
      \E n \in (IF given THEN NodeArgs ELSE {0}),
         r \in (IF given THEN {0} ELSE GetRandBits(MAX_NODE_BITS)),
         seed \in (IF nb \in 0 .. MAX_NODE_BITS THEN rand[RANDOM_BITS - nb] ELSE {0}) :
           Construct(given, n, nb, e, r, seed)

\* A create() call; random_fn is called on the new-millisecond branch only.
CreateAny(rand) ==
    \E rnd \in (IF SameMillisecond(clock, millis) THEN {0} ELSE rand[counter_bits]) :
        Create(rnd)

\* A pluggable random_fn and the default one, as the values each may return.
AnyRandomFn     == [n \in 0 .. RANDOM_BITS |-> RandomFn(n)]
DefaultRandomFn == [n \in 0 .. RANDOM_BITS |-> GetRandBits(n)]

\* One caller at a time, any wall clock, any random_fn.
Next ==
    \/ ConstructAny(AnyRandomFn)
    \/ CreateAny(AnyRandomFn)
    \/ \E c \in 0 .. MaxClock : ClockForward(c)
    \/ \E c \in 0 .. MaxClock : ClockBackward(c)

Spec == Init /\ [][Next]_vars

\* One caller at a time, a wall clock that never steps backward, and the default
\* random_fn, random.getrandbits.
NominalNext ==
    \/ ConstructAny(DefaultRandomFn)
    \/ CreateAny(DefaultRandomFn)
    \/ \E c \in 0 .. MaxClock : ClockForward(c)

NominalSpec == Init /\ [][NominalNext]_vars

\* Callers on several threads, any wall clock, any random_fn.
ThreadNext ==
    \/ ConstructAny(AnyRandomFn)
    \/ \E t \in Threads : Call(t)
    \/ \E t \in Threads : Acquire(t)
    \/ \E t \in Threads : ReadClock(t)
    \/ \E t \in Threads :
         \E rnd \in (IF SameMillisecond(current_millis[t], millis) THEN {0}
                     ELSE RandomFn(counter_bits)) : Update(t, rnd)
    \/ \E t \in Threads : Return(t)
    \/ \E c \in 0 .. MaxClock : ClockForward(c)
    \/ \E c \in 0 .. MaxClock : ClockBackward(c)

ThreadSpec == Init /\ [][ThreadNext]_vars

\* ------------------------------------------------------------- the canonical codec
\* Characters are their code points (ord); a string is a sequence of them.
Digits       == <<48, 49, 50, 51, 52, 53, 54, 55, 56, 57>>               \* '0123456789'
UpperLetters == <<65, 66, 67, 68, 69, 70, 71, 72, 74, 75, 77, 78, 80, 81, 82, 83, 84,
                  86, 87, 88, 89, 90>>                       \* 'ABCDEFGHJKMNPQRSTVWXYZ'
LowerLetters == [i \in 1 .. Len(UpperLetters) |-> UpperLetters[i] + 32]
                                                             \* 'abcdefghjkmnpqrstvwxyz'

\* ALPHABET = '0123456789ABCDEFGHJKMNPQRSTVWXYZ'
ALPHABET == Digits \o UpperLetters

\* str.upper() and str.lower() on one character
Upper(c) == IF c \in 97 .. 122 THEN c - 32 ELSE c
Lower(c) == IF c \in 65 .. 90 THEN c + 32 ELSE c

\* __set_alphabet_values(chars, start) applied to the table tbl
SetAlphabetValuesLowerOnly(tbl, chars, start) ==
    [k \in DOMAIN tbl |->
        IF \E i \in 1 .. Len(chars) : chars[i] = k
        THEN start + (CHOOSE i \in 1 .. Len(chars) : chars[i] = k) - 1
        ELSE tbl[k]]
SetAlphabetValues(tbl, chars, start) ==
    [k \in DOMAIN tbl |->
        IF \E i \in 1 .. Len(chars) : chars[i] = k \/ Upper(chars[i]) = k
        THEN start + (CHOOSE i \in 1 .. Len(chars) : chars[i] = k \/ Upper(chars[i]) = k) - 1
        ELSE tbl[k]]

\* ALPHABET_VALUES after the four module-level calls: 128 entries, -1 where no
\* character was set.
ALPHABET_VALUES ==
    SetAlphabetValues(
        SetAlphabetValues(
            SetAlphabetValues(
                SetAlphabetValues([k \in 0 .. 127 |-> 0 - 1], Digits, 0),
                LowerLetters, 10),
            <<111, 105>>, 0),                                \* 'oi'
        <<108>>, 1)                                          \* 'l'

\* range(60, -5, -5): the bit offset of the k-th symbol, k = 1 .. TSID_CHARS
Offset(k) == SYM_BITS * (TSID_CHARS - k)

\* TSID._to_canonical_string
ToCanonicalString(number) ==
    [k \in 1 .. TSID_CHARS |-> ALPHABET[And(Shr(number, Offset(k)), SYM_MASK) + 1]]

\* TSID.to_string for the canonical formats
to_string(number, fmt) ==
    IF fmt = "S" THEN ToCanonicalString(number)
    ELSE [k \in 1 .. TSID_CHARS |-> Lower(ToCanonicalString(number)[k])]

\* sum(ALPHABET_VALUES[ord(value[i])] << h for i, h in enumerate(range(60, -5, -5)))
RECURSIVE SumSymbols(_, _)
SumSymbols(str, k) ==
    IF k > TSID_CHARS THEN 0
    ELSE Shl(ALPHABET_VALUES[str[k]], Offset(k)) + SumSymbols(str, k + 1)

\* TSID.from_string for the canonical formats: the TSID, or the exception raised
\* (InvalidLength is the ValueError of the length check; IndexError is what the
\* table lookup raises for a code point beyond the table).
from_string(str, fmt) ==
    IF Len(str) # TSID_CHARS THEN [kind |-> "InvalidLength", number |-> NoTSID]
    ELSE IF \E k \in 1 .. TSID_CHARS : str[k] \notin DOMAIN ALPHABET_VALUES
         THEN [kind |-> "IndexError", number |-> NoTSID]
    ELSE [kind |-> "TSID", number |-> TSID(SumSymbols(str, 1))]

Formats == {"S", "s"}

\* Characters of the strings handed to from_string: '0', 'Z', 'a', 'o', 'L', and
\* three that are not accepted, 'U', '-' and 'e' with an acute accent.
InputChars == {48, 90, 97, 111, 76, 85, 45, 233}

RECURSIVE Strings(_)
Strings(n) ==
    IF n = 0 THEN {<<>>}
    ELSE LET shorter == Strings(n - 1)
         IN  shorter \cup {Append(w, c) : w \in {v \in shorter : Len(v) = n - 1},
                                          c \in InputChars}

InputStrings == Strings(TSID_CHARS + 1)

\* TSID(number).to_string(fmt)
Encode(fmt) ==
    /\ value # NoTSID
    /\ text = NoText
    /\ text' = to_string(value, fmt)
    /\ UNCHANGED <<clock, genvars, value, parsed>>

\* TSID.from_string(text, fmt)
Decode(fmt) ==
    /\ text # NoText
    /\ parsed.kind = "none"
    /\ parsed' = from_string(text, fmt)
    /\ UNCHANGED <<clock, genvars, value, text>>

\* Either a TSID of any number (TSID() truncates it), or a string from a caller.
CodecInit ==
    /\ NoGenerator
    /\ parsed = [kind |-> "none", number |-> NoTSID]
    /\ \/ /\ value \in {TSID(n) : n \in 0 .. 2 * TSID_MASK + 1}
          /\ text = NoText
       \/ /\ value = NoTSID
          /\ text \in InputStrings

CodecNext ==
    \/ \E fmt \in Formats : Encode(fmt)
    \/ \E fmt \in Formats : Decode(fmt)

CodecSpec == CodecInit /\ [][CodecNext]_vars

\* ------------------------------------------------------------- claims
\* A step in which a create() call updates the generator (it changes the counter
\* or last_millis on every branch).
CreateStep == phase = "ready" /\ <<counter, millis>>' # <<counter, millis>>

\* x is an unsigned integer of the given number of bits
Fits(x, bits) == x \in 0 .. 2^bits - 1

\* C1: every create() returns a number strictly greater than the number the
\* previous create() returned (any number, for the first call), on the increment,
\* the rollover and the new-millisecond branch.
C1_StrictlyIncreasing == [][CreateStep => last' > last]_vars

\* C1 witness: a call on the new-millisecond branch has returned after an earlier
\* call rolled the counter over.
C1_Witness == last # NoTSID /\ rollovers >= 1 /\ lastBranch = "new"

\* C2: the locked region of create() (clock read, update, packing) is held by at
\* most one thread, the holder of the lock, and the number a call is about to
\* return is strictly greater than the number returned by the call that held the
\* lock before it, so no two calls return the same number.
C2_LockedRegion ==
    /\ \A t, u \in Threads :
         (pc[t] \in {"locked", "read", "updated"} /\ pc[u] \in {"locked", "read", "updated"})
            => t = u
    /\ \A t \in Threads : pc[t] \in {"locked", "read", "updated"} => lock = t
    /\ \A t \in Threads : pc[t] = "updated" => Packed > last

\* C2 witness: one thread is about to return from the locked region after an
\* earlier call returned, while the other thread waits for the lock.
C2_Witness == pc["t1"] = "updated" /\ pc["t2"] = "waiting" /\ last # NoTSID

\* C3: in every state of a constructed generator, counter < 2^counter_bits,
\* whatever random_fn returned.
C3_CounterInRange == phase = "ready" => counter < 2^counter_bits

\* C4: a create() in the same millisecond bucket (now - last_millis < 1) adds 1 to
\* the counter and keeps last_millis, unless the incremented counter does not fit
\* counter_bits bits; then last_millis advances by exactly one millisecond, the
\* counter is 0, and the returned TSID has timestamp one above the previous TSID's
\* and counter field 0. With random_fn returning 0 and node_bits 0, the k-th call
\* of a same-millisecond run returns random field k mod 2^RANDOM_BITS, and exactly
\* the calls numbered a multiple of 2^RANDOM_BITS roll over.
C4_SameMillisecond ==
    [][(CreateStep /\ clock - millis < TicksPerMs) =>
          /\ IF Fits(counter + 1, counter_bits)
             THEN counter' = counter + 1 /\ millis' = millis
             ELSE /\ millis' = millis + TicksPerMs
                  /\ counter' = 0
                  /\ last' % (2^counter_bits) = 0
                  /\ last # NoTSID => last' \div 2^RANDOM_BITS = last \div 2^RANDOM_BITS + 1
          /\ (zeroRun # NoRun /\ node_bits = 0) =>
                /\ last' % (2^RANDOM_BITS) = (zeroRun + 1) % (2^RANDOM_BITS)
                /\ millis' = IF (zeroRun + 1) % (2^RANDOM_BITS) = 0
                             THEN millis + TicksPerMs ELSE millis
      ]_vars

\* C4 witness: with a zero seed and node_bits 0, the 2^RANDOM_BITS-th call of a
\* same-millisecond run has just rolled over, the first rollover of the generator.
C4_Witness ==
    /\ node_bits = 0 /\ zeroRun = 2^RANDOM_BITS
    /\ lastBranch = "roll" /\ rollovers = 1 /\ last % (2^RANDOM_BITS) = 0

\* A rejected constructor call leaves no generator: no TSID, no call in progress.
NoUsableGenerator ==
    /\ err # "none"
    /\ last = NoTSID
    /\ \A t \in Threads : pc[t] = "idle"
    /\ lock = None

\* Every constructed generator has 0 <= node_bits <= 20 and node < 2^node_bits.
ConstructedInvariant ==
    /\ err = "none"
    /\ node_bits \in 0 .. MAX_NODE_BITS
    /\ Fits(node, node_bits)

\* C5 (as claimed): construction fails with InvalidNodeBits whenever node_bits is
\* outside 0..20 and with NodeTooLarge whenever the node does not fit node_bits
\* bits; a failed construction yields no generator; a constructed generator keeps
\* 0 <= node_bits <= 20 and node < 2^node_bits.
C5_Original ==
    /\ phase = "failed" =>
         /\ args.node_bits \notin 0 .. MAX_NODE_BITS => err = "InvalidNodeBits"
         /\ (args.node_bits \in 0 .. MAX_NODE_BITS /\ args.given
                /\ ~Fits(args.node, args.node_bits)) => err = "NodeTooLarge"
         /\ NoUsableGenerator
    /\ phase = "ready" => ConstructedInvariant

\* C5 (amended): a negative explicit node is rejected first, with an invalid-node
\* error, whatever node_bits is; otherwise construction fails with InvalidNodeBits
\* whenever node_bits is outside 0..20, and otherwise with NodeTooLarge whenever
\* the explicit node is 2^node_bits or more (a randomly derived node always fits);
\* a failed construction yields no generator; a constructed generator keeps
\* 0 <= node_bits <= 20 and 0 <= node < 2^node_bits.
C5_ConstructorChecks ==
    /\ phase = "failed" =>
         /\ err = IF args.given /\ args.node < 0 THEN "InvalidNode"
                  ELSE IF args.node_bits \notin 0 .. MAX_NODE_BITS THEN "InvalidNodeBits"
                  ELSE "NodeTooLarge"
         /\ err = "NodeTooLarge" => (args.given /\ args.node >= 2^args.node_bits)
         /\ NoUsableGenerator
    /\ phase = "ready" => ConstructedInvariant

\* C5 witness: the call with node = 2^MAX_NODE_BITS and node_bits = MAX_NODE_BITS
\* (node=1024, node_bits=10 in the source's widths) was rejected with NodeTooLarge.
C5_Witness ==
    /\ phase = "failed" /\ err = "NodeTooLarge"
    /\ args.node = 2^MAX_NODE_BITS /\ args.node_bits = MAX_NODE_BITS

\* The canonical symbol value of a character: its place in the alphabet.
SymbolValue(c) == (CHOOSE i \in 1 .. Len(ALPHABET) : ALPHABET[i] = Upper(c)) - 1

\* C6: the canonical string of a TSID, in upper or lower case, has TSID_CHARS
\* symbols, the k-th being the SYM_BITS bits of the number at offset
\* SYM_BITS * (TSID_CHARS - k), the first with a value in 0..15; decoding it gives
\* the number back.
C6_RoundTrip ==
    (value # NoTSID /\ text # NoText) =>
        /\ Len(text) = TSID_CHARS
        /\ \A k \in 1 .. TSID_CHARS :
             SymbolValue(text[k]) = (value \div 2^(SYM_BITS * (TSID_CHARS - k))) % 2^SYM_BITS
        /\ SymbolValue(text[1]) \in 0 .. 15
        /\ parsed.kind # "none" => parsed = [kind |-> "TSID", number |-> value]

\* C6 witness: the largest TSID was written in lower case ('f', then 'z's) and
\* decoded back to itself.
C6_Witness ==
    /\ value = TSID_MASK /\ text # NoText
    /\ text[1] = 102 /\ text[TSID_CHARS] = 122
    /\ parsed = [kind |-> "TSID", number |-> value]

\* The characters the canonical decoder accepts: the alphabet in either case and
\* the aliases O, o, I, i, L, l.
AcceptedChars ==
    {ALPHABET[i] : i \in 1 .. Len(ALPHABET)} \cup {Lower(ALPHABET[i]) : i \in 1 .. Len(ALPHABET)}
        \cup {79, 111, 73, 105, 76, 108}

\* C7: from_string with a canonical format returns a TSID only for a string of
\* exactly TSID_CHARS accepted characters; any other length fails with
\* InvalidLength and a string of the right length with a character outside the
\* accepted set fails with InvalidCharacter.
C7_RejectsBadStrings ==
    (value = NoTSID /\ parsed.kind # "none") =>
        /\ parsed.kind = "TSID" =>
             (Len(text) = TSID_CHARS /\ \A k \in 1 .. Len(text) : text[k] \in AcceptedChars)
        /\ Len(text) # TSID_CHARS => parsed.kind = "InvalidLength"
        /\ (Len(text) = TSID_CHARS /\ \E k \in 1 .. Len(text) : text[k] \notin AcceptedChars)
              => parsed.kind = "InvalidCharacter"

\* C8: create() never changes node, node_bits or epoch, and the TSID returned last
\* decomposes into the generator's fields: the node above the counter in the
\* random component, the counter in its low counter_bits bits, the whole
\* milliseconds of last_millis - epoch above the random component.
C8_Decomposes ==
    [][phase = "ready" =>
          /\ <<node, node_bits, epoch>>' = <<node, node_bits, epoch>>
          /\ last' # NoTSID =>
               /\ (last' % 2^RANDOM_BITS) \div 2^(RANDOM_BITS - node_bits') = node'
               /\ last' % 2^(RANDOM_BITS - node_bits') = counter'
               /\ last' \div 2^RANDOM_BITS = (millis' - epoch') \div TicksPerMs
      ]_vars

\* C8 witness: a generator with node 1 in one node bit returned a TSID on the
\* new-millisecond branch after a rollover.
C8_Witness ==
    /\ node = 1 /\ node_bits = 1
    /\ last # NoTSID /\ rollovers >= 1 /\ lastBranch = "new"

\* C9 (as claimed): the timestamp of the TSID returned last exceeds the wall clock
\* by at most one millisecond.
C9_Original == last # NoTSID => Timestamp(last, epoch) - clock <= TicksPerMs

\* C9 (amended): with a wall clock that never steps backward, the timestamp of the
\* TSID returned last exceeds the wall clock by at most as many milliseconds as
\* the generator has rolled its counter over.
C9_TimestampLead ==
    last # NoTSID =>
        epoch + (last \div 2^RANDOM_BITS) * TicksPerMs - clock <= rollovers * TicksPerMs

\* C9 witness: after two rollovers the TSID returned last is two milliseconds
\* ahead of the wall clock.
C9_Witness ==
    /\ last # NoTSID /\ rollovers = 2
    /\ Timestamp(last, epoch) - clock = 2 * TicksPerMs

\* C10: last_millis never decreases; a clock reading equal to, less than one
\* millisecond after, or earlier than last_millis is handled as the same
\* millisecond (counter + 1, or rollover to last_millis + 1 and counter 0), the
\* reading replaces last_millis only when it is at least one millisecond later,
\* and the returned numbers keep increasing while the clock is behind.
C10_LastMillisMonotone ==
    [][CreateStep =>
          /\ millis' >= millis
          /\ clock - millis < TicksPerMs =>
               \/ millis' = millis /\ counter' = counter + 1
               \/ millis' = millis + TicksPerMs /\ counter' = 0
          /\ clock - millis >= TicksPerMs => millis' = clock
          /\ clock < millis => last' > last
      ]_vars

\* C10 witness: a call that read a clock earlier than last_millis rolled the
\* counter over.
C10_Witness == last # NoTSID /\ lastBehind /\ lastBranch = "roll"

====
